---- MODULE Spec2Model ----
(***************************************************************************)
(* Crawl orchestration and resumable state of yoadjei/web-scraper.         *)
(*                                                                         *)
(* The model follows webscraper/core/scraper.py (Scraper.run and its       *)
(* helpers), webscraper/utils/state.py (StateManager), webscraper/cli.py   *)
(* (the run and resume commands), webscraper/core/config.py, session.py    *)
(* (SessionManager), webscraper/parsers/dynamic.py (DynamicParser) and      *)
(* webscraper/exporters/file.py (FileExporter).                            *)
(* webscraper/utils/retry.py is not part of the sources; the retry wrapper *)
(* is modelled from section 4.2 of the specification.                      *)
(*                                                                         *)
(* One process at a time works on the job: a run starts, walks the         *)
(* pagination chain, and ends by returning, by raising, or by being        *)
(* killed (Crash).  The checkpoint file outlives the process.              *)
(***************************************************************************)
EXTENDS Integers, Sequences, FiniteSets, TLC

\* ------------------------------------------------------------------ bounds
NumUrls == 3            \* URLs of the site: 1..NumUrls, 1 is base_url
MaxPagesBound == 3      \* pagination.max_pages ranges over 0..MaxPagesBound
MaxRetriesBound == 4    \* max_retries ranges over 1..MaxRetriesBound
RetryRunPages == 2      \* max_pages of the job the retry budget is varied on
CyclePagesBound == 5    \* max_pages ranges over 0..CyclePagesBound on the cycle
ChainPages == 3         \* pages of the chain 1 -> 2 -> ... without cycle
ChainMaxPages == 5      \* max_pages of the run on that chain
StorePagesBound == 2    \* pages recorded by the job that writes to the store
MaxProxies == 3         \* length of the longest proxy list tried
MaxProxyCalls == 7      \* calls of get_proxy on one SessionManager
ChunkTokens == 6        \* tokens of a record that reach the file at a time

\* ------------------------------------------------------- program constants
MaxAttempts == 3        \* @async_retry(max_attempts=3, ...) on _fetch_page
DefaultMaxRetries == 3  \* ScraperConfig.max_retries, default
ConcurrencyMin == 1     \* ScraperConfig.concurrency, ge=1
ConcurrencyMax == 20    \* ScraperConfig.concurrency, le=20
DefaultConcurrency == 5 \* ScraperConfig.concurrency, default
JobIdLength == 12       \* hexdigest()[:12] of _generate_job_id
DigestLength == 32      \* hex digits of an md5 digest

Urls == 1..NumUrls
None == 0               \* Python None for an Optional[str] URL
base_url == 1           \* config.base_url

\* Optional values: <<>> is None, <<v>> is v.
Nothing == <<>>
Some(v) == <<v>>
IsSome(o) == o /= <<>>
Get(o) == o[1]

VARIABLES
    \* configuration (ScraperConfig), fixed for the behaviour
    max_pages,          \* config.pagination.max_pages
    max_retries,        \* config.max_retries
    resume_enabled,     \* config.resume.enabled: state_manager is not None
    renderer,           \* config.renderer: "static" or "dynamic"
    pagination,         \* config.pagination: strategy and selector
    concurrency,        \* config.concurrency of the Scraper in use
    \* the remote site: what each URL serves, revealed on first fetch
    site,               \* [Urls -> Optional [next, cnt]]
    \* checkpoint directory: the record load_state finds for the job, or
    \* Nothing (no file, or a file that does not parse)
    checkpoint,
    \* the running process
    pc,                 \* position in Scraper.run
    state,              \* local `state`: Optional ScrapeState
    current_url,        \* local `current_url`
    pages_scraped,      \* local `pages_scraped`
    all_data,           \* local `all_data`
    next_url,           \* local `next_url` of the page just scraped
    attempts,           \* backend invocations of the current _fetch_page call
    in_flight,          \* slots of self._semaphore in use
    session_open,       \* session_manager._session is an open ClientSession
    browser_open,       \* dynamic_parser holds a started browser
    delays,             \* rate_limit sleeps of the current _fetch_page call
    \* observations of the current run
    resume_job_id,      \* argument of run: "none", "job" or "unknown"
    startState,         \* the checkpoint as the run found it
    fetchLog,           \* URLs handed to _fetch_page, in order
    abandoned,          \* URL whose fetch exhausted its retries, or None
    lastError,          \* how the last backend call or checkpoint write of the
                        \* run failed; "none" after a success or during a call
    exports,            \* calls of exporter.export
    exported,           \* the records handed to the export sink
    filesWritten,       \* output files written by the exporter
    \* the checkpoint directory seen file by file (StateManager)
    dir,                \* [StoreIds -> file]: the *.json files
    writer,             \* the process saving a job: its state and position
    answer,             \* what the last load_state or list_jobs returned
    \* two Scraper objects and the job identifiers they generated
    cfgs,               \* [Scrapers -> configuration]
    job_ids,            \* [Scrapers -> Optional job_id]
    \* a SessionManager and the proxies it handed out
    proxies,            \* self.proxies
    proxy_index,        \* self._proxy_index
    proxy_returned      \* what the calls of get_proxy returned, in order

config == <<max_pages, max_retries, resume_enabled, renderer, pagination>>
locals == <<state, current_url, pages_scraped, all_data, next_url, attempts>>
resources == <<in_flight, session_open, browser_open>>
pacing == <<delays>>
observed == <<resume_job_id, startState, fetchLog, abandoned, lastError,
              exports, exported, filesWritten>>
crawl == <<config, concurrency, site, checkpoint, pc, locals, resources, pacing,
           observed>>
store == <<dir, writer, answer>>
ident == <<cfgs, job_ids>>
rotation == <<proxies, proxy_index, proxy_returned>>
vars == <<crawl, store, ident, rotation>>

\* ------------------------------------------------------------- the site
\* The records of a page: cnt field maps, told apart by page and position.
Records(u, cnt) == [k \in 1..cnt |-> <<u, k>>]

\* A page holds no record or two records.
ItemCounts == {0, 2}

\* What a URL serves: the link of its next button (None without one) and
\* the number of item containers.  An empty body is next = None, cnt = 0.
PageContents == [next : Urls \cup {None}, cnt : ItemCounts]

\* PaginationConfig: the strategy and the selector, which may be missing or
\* the empty string.
Strategies == {"next_button", "page_number", "infinite_scroll", "none"}
SelectorValues == {Nothing, Some(""), Some("li.next > a")}
PaginationConfigs == [strategy : Strategies, selector : SelectorValues]

\* A configuration that follows the next button of the pages.
NextButtonPagination == [strategy |-> "next_button", selector |-> Some("li.next > a")]

\* `not pagination.selector` is false
SelectorGiven(p) == IsSome(p.selector) /\ Get(p.selector) /= ""

\* get_next_page_url without the test of the strategy "none"
GetNextPageUrlAnyStrategy(c, p) ==
    IF ~SelectorGiven(p) THEN None ELSE c.next

\* get_next_page_url(soup, current_url, pagination), the same in the static
\* and the dynamic parser; c.next is the link of the element the selector
\* matches on the page.
GetNextPageUrl(c, p) ==
    IF p.strategy = "none" \/ ~SelectorGiven(p) THEN None
    ELSE IF p.strategy = "next_button" THEN c.next
    ELSE None

\* _scrape_page that reports no next page for a page without items
ScrapePageNextStopOnEmpty(c) == IF c.cnt = 0 THEN None ELSE c.next

\* _scrape_page: the next URL it returns beside the items is the one the
\* parser finds on the page, whatever the number of items.
ScrapePageNext(c) == GetNextPageUrl(c, pagination)

\* --------------------------------------------------------- StateManager
\* ScrapeState without job_id, base_url and the two timestamps.
NewState ==
    [pages_scraped |-> 0, items_collected |-> 0, current_url |-> base_url,
     completed |-> FALSE, urls_scraped |-> <<>>]

\* update_progress without `state.urls_scraped.append(url)`
UpdateProgressNoAppend(s, url, items_count) ==
    [s EXCEPT !.pages_scraped = @ + 1,
              !.items_collected = @ + items_count,
              !.current_url = url]

\* update_progress that counts one item per page
UpdateProgressOneItem(s, url, items_count) ==
    [s EXCEPT !.pages_scraped = @ + 1,
              !.items_collected = @ + 1,
              !.urls_scraped = Append(@, url),
              !.current_url = url]

\* update_progress(state, url, items_count): the state it saves
UpdateProgress(s, url, items_count) ==
    [s EXCEPT !.pages_scraped = @ + 1,
              !.items_collected = @ + items_count,
              !.urls_scraped = Append(@, url),
              !.current_url = url]

\* mark_completed that leaves the state as it is
MarkCompletedNot(s) == s

\* mark_completed(state): the state it saves
MarkCompleted(s) == [s EXCEPT !.completed = TRUE, !.current_url = None]

\* get_resumable_url(state)
GetResumableUrl(s) == IF s.completed THEN None ELSE s.current_url

InSeq(x, q) == \E i \in 1..Len(q) : q[i] = x

\* ------------------------------------------- the checkpoint files, in detail
\* Job identifiers with a file name in the checkpoint directory.
StoreIds == {"a", "b"}

\* create_job that builds a state without a URL to start from
NewJobWithoutCursor(job_id) ==
    [job_id |-> job_id, base_url |-> base_url, started_at |-> 0,
     last_updated |-> 0, pages_scraped |-> 0, items_collected |-> 0,
     current_url |-> None, completed |-> FALSE, urls_scraped |-> <<>>]

\* create_job(job_id, base_url): the ScrapeState it builds.  Time is
\* counted per job, in readings of datetime.utcnow() since the job was
\* created: create_job reads 0.
NewJob(job_id) ==
    [job_id |-> job_id, base_url |-> base_url, started_at |-> 0,
     last_updated |-> 0, pages_scraped |-> 0, items_collected |-> 0,
     current_url |-> base_url, completed |-> FALSE, urls_scraped |-> <<>>]

\* save_state(state) sets last_updated to the next reading of the clock
\* before it writes; the state object of the caller is changed with it.
Stamp(s) == [s EXCEPT !.last_updated = @ + 1]

\* The keys of asdict(state).
FieldNames ==
    {"job_id", "base_url", "started_at", "last_updated", "pages_scraped",
     "items_collected", "current_url", "completed", "urls_scraped"}

\* The numbers a record of the store can hold.
StoreNats == 0..(NumUrls + 2 * StorePagesBound)

\* JSON text is a sequence of tokens.
EncUrl(u) == IF u = None THEN "null" ELSE ToString(u)
\* str(bool) in place of the JSON literal
EncBoolPython(b) == IF b THEN "True" ELSE "False"
EncBool(b) == IF b THEN "true" ELSE "false"
EncList(q) == <<"[">> \o [i \in 1..Len(q) |-> ToString(q[i])] \o <<"]">>

\* json.dump(asdict(state), f): the tokens written, in order
JsonDump(s) ==
    <<"{", "job_id", s.job_id,
      "base_url", ToString(s.base_url),
      "started_at", ToString(s.started_at),
      "last_updated", ToString(s.last_updated),
      "pages_scraped", ToString(s.pages_scraped),
      "items_collected", ToString(s.items_collected),
      "current_url", EncUrl(s.current_url),
      "completed", EncBool(s.completed),
      "urls_scraped">> \o EncList(s.urls_scraped) \o <<"}">>

DecNat(tok) == CHOOSE n \in StoreNats : ToString(n) = tok
DecUrl(tok) == IF tok = "null" THEN None ELSE DecNat(tok)
DecBool(tok) == tok = "true"
DecList(toks) == [i \in 1..Len(toks) |-> DecNat(toks[i])]

\* Nesting depth after the first i tokens.
Depth(text, i) ==
    Cardinality({k \in 1..i : text[k] \in {"{", "["}})
    - Cardinality({k \in 1..i : text[k] \in {"}", "]"}})

\* json.load accepts the text: one complete object or array whose members
\* are key/value pairs (object) or values (array).
TopLevel(text) ==
    SelectSeq([k \in 1..(Len(text) - 2) |-> k + 1],
              LAMBDA k : Depth(text, k - 1) = 1 /\ text[k] \notin {"}", "]"})

JsonDecodes(text) ==
    /\ Len(text) >= 2
    /\ \/ text[1] = "{" /\ text[Len(text)] = "}" /\ Len(TopLevel(text)) % 2 = 0
       \/ text[1] = "[" /\ text[Len(text)] = "]"
    /\ Depth(text, Len(text)) = 0
    /\ \A i \in 1..(Len(text) - 1) : Depth(text, i) > 0

\* The keys of a decoded object.
Keys(text) ==
    LET top == TopLevel(text)
    IN  {text[top[i]] : i \in {j \in 1..Len(top) : j % 2 = 1}}

\* The tokens of the value of key: one token, or the members of an array;
\* top is TopLevel(text).
ValueOf(text, top, key) ==
    LET i == CHOOSE j \in 1..Len(top) : j % 2 = 1 /\ text[top[j]] = key
        p == top[i + 1]
        q == CHOOSE k \in (p + 1)..Len(text) :
                 /\ text[k] = "]"
                 /\ \A m \in (p + 1)..(k - 1) : text[m] /= "]"
    IN  IF text[p] = "[" THEN SubSeq(text, p + 1, q - 1) ELSE <<text[p]>>

\* json.load followed by ScrapeState(**data): the exception raised, "none"
\* when the record is built.  The dataclass takes exactly its fields as
\* keyword arguments and does not look at their values.
ParseError(text) ==
    IF ~JsonDecodes(text) THEN "JSONDecodeError"
    ELSE IF text[1] /= "{" \/ Keys(text) /= FieldNames THEN "TypeError"
    ELSE "none"

\* ScrapeState(**json.load(f)) of a text without ParseError
Parse(text) ==
    LET top == TopLevel(text)
    IN
    [job_id |-> ValueOf(text, top, "job_id")[1],
     base_url |-> DecNat(ValueOf(text, top, "base_url")[1]),
     started_at |-> DecNat(ValueOf(text, top, "started_at")[1]),
     last_updated |-> DecNat(ValueOf(text, top, "last_updated")[1]),
     pages_scraped |-> DecNat(ValueOf(text, top, "pages_scraped")[1]),
     items_collected |-> DecNat(ValueOf(text, top, "items_collected")[1]),
     current_url |-> DecUrl(ValueOf(text, top, "current_url")[1]),
     completed |-> DecBool(ValueOf(text, top, "completed")[1]),
     urls_scraped |-> DecList(ValueOf(text, top, "urls_scraped"))]

\* load_state with `except json.JSONDecodeError` only
CaughtJsonOnly == {"JSONDecodeError"}

\* `except (json.JSONDecodeError, TypeError)` of load_state
Caught == {"JSONDecodeError", "TypeError"}

\* load_state on a file: the states found (none or one) and the exception
\* that leaves the call, "none" when it returns.
LoadFile(file) ==
    IF ~file.exists THEN [found |-> {}, raised |-> "none"]
    ELSE LET err == ParseError(file.text)
         IN  IF err = "none" THEN [found |-> {Parse(file.text)}, raised |-> "none"]
             ELSE IF err \in Caught THEN [found |-> {}, raised |-> "none"]
             ELSE [found |-> {}, raised |-> err]

\* A file of the directory: whether it exists, its text, and the record the
\* text is a complete dump of (Nothing for any other text).
Absent == [exists |-> FALSE, text |-> <<>>, rec |-> Nothing]
FileOf(s) == [exists |-> TRUE, text |-> JsonDump(s), rec |-> Some(s)]
Garbage(text) == [exists |-> TRUE, text |-> text, rec |-> Nothing]

\* What the directory may hold for a job when the program starts: nothing,
\* a record, a file cut short by an interrupted save, or JSON that is not a
\* ScrapeState.
InitialFiles(j) ==
    {Absent, FileOf(NewJob(j)), FileOf(MarkCompleted(NewJob(j))),
     Garbage(<<>>), Garbage(SubSeq(JsonDump(NewJob(j)), 1, ChunkTokens)),
     Garbage(<<"{", "job_id", j, "}">>), Garbage(<<"[", "]">>)}

NoAnswer == [op |-> "none", id |-> "", found |-> {}, raised |-> "none"]
IdleWriter == [st |-> Nothing, saving |-> FALSE, pos |-> 0, old |-> Nothing]

StoreIdle ==
    /\ dir = [j \in StoreIds |-> Absent]
    /\ writer = IdleWriter
    /\ answer = NoAnswer

\* --------------------------------------------------------------- job_id
\* Strings are sequences of characters; these are the characters of the
\* base URLs and selectors tried.
CharCode(c) == CASE c = "a" -> 1 [] c = "b" -> 2 [] c = ":" -> 3 [] OTHER -> 4

BaseUrls == {<<"a">>, <<"a", ":">>, <<"a", ":", "b">>, <<"b">>}
Selectors == {<<"b">>, <<":", "b">>, <<"b", "a">>}
Scrapers == {1, 2}

\* The settings of a configuration that matter here, and one that stands
\* for all the others.
Configs == [base_url : BaseUrls, item_container : Selectors, other : {"a", "b"}]

\* a config string that also holds another setting
ConfigStrWithOther(cfg) ==
    cfg.base_url \o <<":">> \o cfg.item_container \o <<":", cfg.other>>

\* f"{self.config.base_url}:{self.config.selectors.item_container}"
ConfigStr(cfg) == cfg.base_url \o <<":">> \o cfg.item_container

RECURSIVE WeightedSum(_, _, _)
WeightedSum(s, i, j) ==
    IF j > Len(s) THEN 0
    ELSE CharCode(s[j]) * (i + j) + WeightedSum(s, i, j + 1)

\* hashlib.md5(s.encode()).hexdigest(): DigestLength hex digits that depend
\* on nothing but the characters of s and their positions.  The digest is a
\* stand-in for md5: a function of the string, not md5 itself.
HexDigest(s) == [i \in 1..DigestLength |-> (WeightedSum(s, i, 1) + Len(s)) % 16]

\* _generate_job_id()
GenerateJobId(cfg) == SubSeq(HexDigest(ConfigStr(cfg)), 1, JobIdLength)

\* _get_state_path(job_id): checkpoint_dir / f"{job_id}.json"
StatePath(job_id) == <<"checkpoint_dir", job_id, ".json">>

IdentIdle ==
    /\ cfgs = [k \in Scrapers |->
                 [base_url |-> <<"a">>, item_container |-> <<"b">>, other |-> "a"]]
    /\ job_ids = [k \in Scrapers |-> Nothing]

\* ------------------------------------------------------- SessionManager
\* The proxy URLs of the configurations tried; a list may repeat one.
ProxyNames == {"p1", "p2", "p3"}
ProxyLists == UNION {[1..n -> ProxyNames] : n \in 0..MaxProxies}

\* get_proxy that never moves on
NextProxyIndexStuck(i, n) == i

\* `(self._proxy_index + 1) % len(self.proxies)`
NextProxyIndex(i, n) == (i + 1) % n

\* SessionManager() of a configuration without proxies, before any call.
\* get_proxy changes nothing on it: the crawl specifications keep it.
RotationIdle ==
    /\ proxies = <<>>
    /\ proxy_index = 0
    /\ proxy_returned = <<>>

\* ------------------------------------------------------------ Scraper.run
\* the loop test with `<=` for `<`
LoopConditionOffByOne == current_url /= None /\ pages_scraped <= max_pages

\* `while current_url and pages_scraped < max_pages`
LoopCondition == current_url /= None /\ pages_scraped < max_pages

\* the loop without the visited-URL test
NeverSkip == FALSE

\* `if state and current_url in state.urls_scraped`
ShouldSkip == IsSome(state) /\ InSeq(current_url, Get(state).urls_scraped)

\* a Scraper that builds its StateManager whatever the configuration says
StateManagerAlwaysBuilt == TRUE

\* `StateManager(...) if config.resume.enabled else None`
StateManagerBuilt == resume_enabled

\* `if state and self.state_manager`
HasStateManager == IsSome(state) /\ StateManagerBuilt

\* the export without the `if all_data` guard
AlwaysExport == TRUE

\* `if all_data`
ShouldExport == all_data /= <<>>

\* FileExporter.export: `if not data: return` before any file is touched
ExporterWrites(data) == data /= <<>>

\* The failures that are instances of a class of
\* `exceptions=(aiohttp.ClientError, asyncio.TimeoutError)`:
\* ClientResponseError and InvalidURL are subclasses of ClientError.
RetryExceptions == {"transient", "http_4xx", "invalid_url"}

\* The retry wrapper around _fetch_page, after attempt number n has failed:
\* a failure of a retryable kind is attempted again, after the delay, while
\* fewer than max_attempts attempts were made; the last failed attempt and
\* any failure of another kind propagate to the caller.
AsyncRetry(outcome, n) ==
    IF outcome \in RetryExceptions /\ n < MaxAttempts THEN "again" ELSE "raise"

\* The ways a backend invocation fails.  With the static renderer:
\* "transient" is a connection error, a 5xx status or a timeout
\* (aiohttp.ClientError, asyncio.TimeoutError); "http_4xx" is the
\* ClientResponseError raise_for_status raises on a 4xx status; "invalid_url"
\* is the InvalidURL session.get raises on a malformed URL; "other" is any
\* exception outside aiohttp.  The browser of the dynamic renderer raises
\* its own errors only.
BackendFailures(r) ==
    IF r = "dynamic" THEN {"other"}
    ELSE {"transient", "http_4xx", "invalid_url", "other"}

\* The failures the specification calls non-retryable.
NonRetryable == {"http_4xx", "invalid_url"}

\* `if concurrency:` of the run command: the override is given and not 0
Truthy(o) == IsSome(o) /\ Get(o) /= 0

\* Field(ge=1, le=20), checked when ScraperConfig is constructed
ValidConcurrency(c) == c >= ConcurrencyMin /\ c <= ConcurrencyMax

\* Values of concurrency in the file and on the command line.
ConcurrencyInputs ==
    {ConcurrencyMin - 2, ConcurrencyMin - 1, ConcurrencyMin,
     ConcurrencyMax, ConcurrencyMax + 1}

\* a slot that is taken and never given back
ReleaseLeak(n) == n

\* Leaving `async with self._semaphore`, by return or by exception.
Release(n) == n - 1

\* the sleep served before the first attempt of a page only
ServeDelayOncePerPage(d) == IF d = 0 THEN 1 ELSE d

\* `await asyncio.sleep(self.config.rate_limit)`, first statement inside the
\* semaphore: served by every invocation of the body of _fetch_page.
ServeDelay(d) == d + 1

\* the items of a page put in front of all_data
ExtendInFront(data, items) == items \o data

\* `all_data.extend(items)`
Extend(data, items) == data \o items

\* a run that calls the exporter again after it failed
OnExportErrorRetry == "export"

\* Nothing in run catches the exception of exporter.export: run raises.
OnExportError == "failed"

\* run without line 228
CleanupWithoutSessionClose ==
    /\ browser_open' = FALSE
    /\ UNCHANGED session_open

\* The `finally` of run: stop the browser, close the session.
Cleanup ==
    /\ browser_open' = FALSE
    /\ session_open' = FALSE

\* a run that logs a failed checkpoint write and goes on
OnSaveErrorContinue == "advance"

\* Nothing in run catches the exception of save_state: run raises.
OnSaveError == "failed"

JobIds == {"none", "job", "unknown"}
Stopped == {"idle", "done", "failed", "rejected", "crashed"}
Running == {"loop", "fetch", "inflight", "advance", "export"}
Errors == {"none", "transient", "http_4xx", "invalid_url", "other", "save",
           "export"}

TypeOK ==
    /\ max_pages \in 0..MaxPagesBound \cup 0..CyclePagesBound
    /\ max_retries \in 1..MaxRetriesBound
    /\ resume_enabled \in BOOLEAN
    /\ renderer \in {"static", "dynamic"}
    /\ pagination \in PaginationConfigs
    /\ concurrency \in ConcurrencyInputs \cup {DefaultConcurrency}
    /\ pc \in Stopped \cup Running
    /\ current_url \in Urls \cup {None}
    /\ next_url \in Urls \cup {None}
    /\ pages_scraped \in 0..max_pages
    /\ attempts \in 0..MaxAttempts
    /\ in_flight \in 0..1
    /\ delays \in 0..MaxAttempts
    /\ session_open \in BOOLEAN
    /\ browser_open \in BOOLEAN
    /\ resume_job_id \in JobIds
    /\ abandoned \in Urls \cup {None}
    /\ lastError \in Errors
    /\ exports \in 0..1
    /\ filesWritten \in 0..1

\* The process memory and the observations of a process that has not run.
Fresh ==
    /\ state = Nothing
    /\ current_url = None
    /\ pages_scraped = 0
    /\ all_data = <<>>
    /\ next_url = None
    /\ attempts = 0
    /\ delays = 0
    /\ in_flight = 0
    /\ session_open = FALSE
    /\ browser_open = FALSE
    /\ resume_job_id = "none"
    /\ startState = Nothing
    /\ fetchLog = <<>>
    /\ abandoned = None
    /\ lastError = "none"
    /\ exports = 0
    /\ exported = <<>>
    /\ filesWritten = 0

\* A new process: nothing of the previous one is left in memory.
ResetProcess ==
    /\ state' = Nothing
    /\ current_url' = None
    /\ pages_scraped' = 0
    /\ all_data' = <<>>
    /\ next_url' = None
    /\ attempts' = 0
    /\ delays' = 0
    /\ in_flight' = 0
    /\ session_open' = FALSE
    /\ browser_open' = FALSE
    /\ resume_job_id' = "none"
    /\ startState' = Nothing
    /\ fetchLog' = <<>>
    /\ abandoned' = None
    /\ lastError' = "none"
    /\ exports' = 0
    /\ exported' = <<>>
    /\ filesWritten' = 0

Init ==
    /\ max_pages \in 0..MaxPagesBound
    /\ max_retries = DefaultMaxRetries
    /\ resume_enabled \in BOOLEAN
    /\ renderer = "static"
    /\ pagination = NextButtonPagination
    /\ concurrency = DefaultConcurrency
    /\ site = [u \in Urls |-> Nothing]
    /\ checkpoint = Nothing
    /\ pc = "idle"
    /\ Fresh
    /\ StoreIdle
    /\ IdentIdle
    /\ RotationIdle

\* load_state(job_id): the record of the job, None for an id without a file
LoadState(job_id) == IF job_id = "job" THEN checkpoint ELSE Nothing

\* Lines 158-191 of run, for a Scraper whose config.concurrency is limit:
\* create the semaphore, start the browser of the dynamic renderer, resume
\* or create the job, enter the loop.  asyncio.Semaphore raises ValueError
\* on a negative value, before the `try`.
RunEntry(id, limit) ==
    LET loaded == IF id /= "none" /\ StateManagerBuilt THEN LoadState(id) ELSE Nothing
        resuming == IsSome(loaded) /\ ~Get(loaded).completed
    IN  /\ concurrency' = limit
        /\ IF limit < 0
           THEN /\ pc' = "failed"
                /\ ResetProcess
                /\ UNCHANGED checkpoint
           ELSE /\ resume_job_id' = id
                /\ startState' = checkpoint
                /\ IF resuming
                   THEN /\ state' = loaded
                        /\ current_url' = GetResumableUrl(Get(loaded))
                        /\ pages_scraped' = Get(loaded).pages_scraped
                        /\ UNCHANGED checkpoint
                   ELSE /\ state' = IF StateManagerBuilt THEN Some(NewState) ELSE Nothing
                        /\ checkpoint' = IF StateManagerBuilt THEN Some(NewState)
                                         ELSE checkpoint
                        /\ current_url' = base_url
                        /\ pages_scraped' = 0
                /\ all_data' = <<>>
                /\ next_url' = None
                /\ attempts' = 0
                /\ delays' = 0
                /\ in_flight' = 0
                /\ session_open' = FALSE
                /\ browser_open' = (renderer = "dynamic")
                /\ fetchLog' = <<>>
                /\ abandoned' = None
                /\ lastError' = "none"
                /\ exports' = 0
                /\ exported' = <<>>
                /\ filesWritten' = 0
                /\ pc' = "loop"
        /\ UNCHANGED <<ident, rotation, store, config, site>>

\* Scraper.run(resume_job_id=id), called by the run command (id "none") or
\* through the library.
StartRun ==
    /\ pc \in Stopped
    /\ \E id \in JobIds : RunEntry(id, concurrency)

\* The resume command: it refuses a missing or completed job, else runs.
CliResume ==
    /\ pc \in Stopped
    /\ \E id \in JobIds \ {"none"} :
        LET st == LoadState(id)
        IN  IF IsSome(st) /\ ~Get(st).completed
            THEN RunEntry(id, concurrency)
            ELSE /\ pc' = "rejected"
                 /\ ResetProcess
                 /\ UNCHANGED <<ident, rotation, store, config, concurrency, site, checkpoint>>

\* The run command: load and validate the configuration file, apply the
\* --concurrency override by plain assignment, construct the Scraper, run.
CliRun ==
    /\ pc \in Stopped
    /\ \E inFile \in ConcurrencyInputs \cup {DefaultConcurrency},
          override \in {Nothing} \cup {Some(c) : c \in ConcurrencyInputs} :
        IF ~ValidConcurrency(inFile)
        THEN /\ pc' = "rejected"
             /\ ResetProcess
             /\ UNCHANGED <<ident, rotation, store, config, concurrency, site, checkpoint>>
        ELSE RunEntry("none", IF Truthy(override) THEN Get(override) ELSE inFile)

\* The skip branch: count the page and `continue`.
LoopSkip ==
    /\ pc = "loop"
    /\ LoopCondition
    /\ ShouldSkip
    /\ pages_scraped' = pages_scraped + 1
    /\ UNCHANGED <<ident, rotation, store, delays, config, concurrency, site, checkpoint, pc, state, current_url,
                   all_data, next_url, attempts, resources, observed>>

\* The loop body up to the call of _fetch_page(current_url).
LoopEnter ==
    /\ pc = "loop"
    /\ LoopCondition
    /\ ~ShouldSkip
    /\ pc' = "fetch"
    /\ attempts' = 0
    /\ delays' = 0
    /\ fetchLog' = Append(fetchLog, current_url)
    /\ UNCHANGED <<ident, rotation, store, config, concurrency, site, checkpoint, state, current_url,
                   pages_scraped, all_data, next_url, resources, resume_job_id,
                   startState, abandoned, lastError, exports, exported,
                   filesWritten>>

\* One invocation of the body of _fetch_page up to the request: take a slot
\* of the semaphore, sleep rate_limit, open the session if there is none
\* (static renderer), send the request.
Acquire ==
    /\ pc = "fetch"
    /\ in_flight < concurrency
    /\ in_flight' = in_flight + 1
    /\ delays' = ServeDelay(delays)
    /\ session_open' = (session_open \/ renderer = "static")
    /\ lastError' = "none"
    /\ pc' = "inflight"
    /\ UNCHANGED <<ident, rotation, store, config, concurrency, site, checkpoint, locals, browser_open,
                   resume_job_id, startState, fetchLog, abandoned, exports,
                   exported, filesWritten>>

\* The backend returns content and the slot is released: transform the
\* content, extend all_data, record the page in the checkpoint (lines
\* 110-124 and 200-205).
FetchOk ==
    /\ pc = "inflight"
    /\ \E c \in PageContents :
        /\ IsSome(site[current_url]) => c = Get(site[current_url])
        /\ site' = [site EXCEPT ![current_url] = Some(c)]
        /\ all_data' = Extend(all_data, Records(current_url, c.cnt))
        /\ next_url' = ScrapePageNext(c)
        /\ IF HasStateManager
           THEN /\ state' = Some(UpdateProgress(Get(state), current_url, c.cnt))
                /\ checkpoint' = state'
           ELSE UNCHANGED <<state, checkpoint>>
    /\ attempts' = attempts + 1
    /\ in_flight' = Release(in_flight)
    /\ lastError' = "none"
    /\ pc' = "advance"
    /\ UNCHANGED <<ident, rotation, store, delays, config, concurrency, current_url, pages_scraped, session_open,
                   browser_open, resume_job_id, startState, fetchLog, abandoned,
                   exports, exported, filesWritten>>

\* The backend fails and the slot is released on the way out of the
\* `async with`.  The wrapper attempts again or lets the exception out of
\* _fetch_page; nothing in _scrape_page or run catches it (run has a
\* `finally` only), so run cleans up and ends by raising.
FetchFail ==
    /\ pc = "inflight"
    /\ \E outcome \in BackendFailures(renderer) :
        /\ attempts' = attempts + 1
        /\ in_flight' = Release(in_flight)
        /\ lastError' = outcome
        /\ IF AsyncRetry(outcome, attempts + 1) = "again"
           THEN /\ pc' = "fetch"
                /\ UNCHANGED <<abandoned, session_open, browser_open>>
           ELSE /\ pc' = "failed"
                /\ abandoned' = IF outcome \in RetryExceptions
                                THEN current_url ELSE None
                /\ Cleanup
    /\ UNCHANGED <<ident, rotation, store, delays, config, concurrency, site, checkpoint, state, current_url,
                   pages_scraped, all_data, next_url, resume_job_id, startState,
                   fetchLog, exports, exported, filesWritten>>

\* The backend returns content but the write of update_progress fails
\* (state.py:61-67): the file is left as it was when it could not be opened,
\* empty or cut short when the write broke off after `open(path, 'w')`.
UpdateProgressFails ==
    /\ pc = "inflight"
    /\ HasStateManager
    /\ \E c \in PageContents :
        /\ IsSome(site[current_url]) => c = Get(site[current_url])
        /\ site' = [site EXCEPT ![current_url] = Some(c)]
        /\ all_data' = Extend(all_data, Records(current_url, c.cnt))
        /\ next_url' = ScrapePageNext(c)
        /\ state' = Some(UpdateProgress(Get(state), current_url, c.cnt))
    /\ checkpoint' \in {checkpoint, Nothing}
    /\ attempts' = attempts + 1
    /\ in_flight' = Release(in_flight)
    /\ lastError' = "save"
    /\ pc' = OnSaveError
    /\ IF OnSaveError = "failed"
       THEN Cleanup
       ELSE UNCHANGED <<session_open, browser_open>>
    /\ UNCHANGED <<ident, rotation, store, delays, config, concurrency, current_url, pages_scraped,
                   resume_job_id, startState, fetchLog, abandoned,
                   exports, exported, filesWritten>>

\* `current_url = next_url; pages_scraped += 1`
Advance ==
    /\ pc = "advance"
    /\ current_url' = next_url
    /\ pages_scraped' = pages_scraped + 1
    /\ pc' = "loop"
    /\ UNCHANGED <<ident, rotation, store, delays, config, concurrency, site, checkpoint, state, all_data,
                   next_url, attempts, resources, observed>>

\* The loop condition is false: mark the job completed (lines 213-215).
LoopExit ==
    /\ pc = "loop"
    /\ ~LoopCondition
    /\ IF HasStateManager
       THEN /\ state' = Some(MarkCompleted(Get(state)))
            /\ checkpoint' = state'
       ELSE UNCHANGED <<state, checkpoint>>
    /\ pc' = "export"
    /\ UNCHANGED <<ident, rotation, store, delays, config, concurrency, site, current_url, pages_scraped,
                   all_data, next_url, attempts, resources, observed>>

\* Lines 217-228: export when there is data, clean up, return.
Export ==
    /\ pc = "export"
    /\ IF ShouldExport
       THEN /\ exports' = exports + 1
            /\ exported' = all_data
            /\ filesWritten' = IF ExporterWrites(all_data)
                               THEN filesWritten + 1 ELSE filesWritten
       ELSE UNCHANGED <<exports, exported, filesWritten>>
    /\ Cleanup
    /\ pc' = "done"
    /\ UNCHANGED <<ident, rotation, store, delays, config, concurrency, site, checkpoint, locals, in_flight,
                   resume_job_id, startState, fetchLog, abandoned, lastError>>

\* Lines 217-220 when exporter.export raises (the file cannot be written,
\* the format has no library): the finally runs and run raises.
ExportFails ==
    /\ pc = "export"
    /\ ShouldExport
    /\ exports' = exports + 1
    /\ lastError' = "export"
    /\ pc' = OnExportError
    /\ IF OnExportError = "failed"
       THEN Cleanup
       ELSE UNCHANGED <<session_open, browser_open>>
    /\ UNCHANGED <<ident, rotation, store, delays, config, concurrency, site, checkpoint,
                   locals, in_flight, resume_job_id, startState, fetchLog,
                   abandoned, exported, filesWritten>>

\* The process is killed: its memory is gone, the checkpoint file stays.
Crash ==
    /\ pc \in Running
    /\ pc' = "crashed"
    /\ ResetProcess
    /\ UNCHANGED <<ident, rotation, store, config, concurrency, site, checkpoint>>

Next ==
    \/ StartRun
    \/ CliResume
    \/ LoopSkip
    \/ LoopEnter
    \/ Acquire
    \/ FetchOk
    \/ FetchFail
    \/ Advance
    \/ LoopExit
    \/ Export
    \/ Crash

Spec == Init /\ [][Next]_vars

\* The same behaviours with max_retries ranging over the values the
\* configuration accepts, on a job of RetryRunPages pages.
InitRetry ==
    /\ max_pages = RetryRunPages
    /\ max_retries \in 1..MaxRetriesBound
    /\ resume_enabled = TRUE
    /\ renderer = "static"
    /\ pagination = NextButtonPagination
    /\ concurrency = DefaultConcurrency
    /\ site = [u \in Urls |-> Nothing]
    /\ checkpoint = Nothing
    /\ pc = "idle"
    /\ Fresh
    /\ StoreIdle
    /\ IdentIdle
    /\ RotationIdle

SpecRetry == InitRetry /\ [][Next]_vars

\* The behaviours with failing checkpoint writes, for both renderers, on a
\* job of RetryRunPages pages.
InitFaults ==
    /\ max_pages = RetryRunPages
    /\ max_retries = DefaultMaxRetries
    /\ resume_enabled = TRUE
    /\ renderer \in {"static", "dynamic"}
    /\ pagination = NextButtonPagination
    /\ concurrency = DefaultConcurrency
    /\ site = [u \in Urls |-> Nothing]
    /\ checkpoint = Nothing
    /\ pc = "idle"
    /\ Fresh
    /\ StoreIdle
    /\ IdentIdle
    /\ RotationIdle

NextFaults ==
    \/ Next
    \/ UpdateProgressFails
    \/ ExportFails

SpecFaults == InitFaults /\ [][NextFaults]_vars

\* The behaviours of the run command, with the concurrency limit taken from
\* the configuration file and the command line.
InitConfig ==
    /\ max_pages = RetryRunPages
    /\ max_retries = DefaultMaxRetries
    /\ resume_enabled = TRUE
    /\ renderer = "static"
    /\ pagination = NextButtonPagination
    /\ concurrency = DefaultConcurrency
    /\ site = [u \in Urls |-> Nothing]
    /\ checkpoint = Nothing
    /\ pc = "idle"
    /\ Fresh
    /\ StoreIdle
    /\ IdentIdle
    /\ RotationIdle

NextConfig ==
    \/ CliRun
    \/ LoopSkip
    \/ LoopEnter
    \/ Acquire
    \/ FetchOk
    \/ FetchFail
    \/ Advance
    \/ LoopExit
    \/ Export
    \/ Crash

SpecConfig == InitConfig /\ [][NextConfig]_vars

\* The behaviours on a site whose page 2 links back to page 1, with
\* checkpointing, when no request fails and the process is not killed.
CycleSite ==
    [u \in Urls |->
        IF u = base_url THEN {Some([next |-> 2, cnt |-> c]) : c \in ItemCounts}
        ELSE IF u = 2 THEN {Some([next |-> base_url, cnt |-> c]) : c \in ItemCounts}
        ELSE {Nothing}]

InitCycle ==
    /\ max_pages \in 0..CyclePagesBound
    /\ max_retries = DefaultMaxRetries
    /\ resume_enabled = TRUE
    /\ renderer = "static"
    /\ pagination = NextButtonPagination
    /\ concurrency = DefaultConcurrency
    /\ site \in [Urls -> UNION {CycleSite[u] : u \in Urls}]
    /\ \A u \in Urls : site[u] \in CycleSite[u]
    /\ checkpoint = Nothing
    /\ pc = "idle"
    /\ Fresh
    /\ StoreIdle
    /\ IdentIdle
    /\ RotationIdle

\* One step of the coroutine of run.
RunStep ==
    \/ LoopSkip
    \/ LoopEnter
    \/ Acquire
    \/ FetchOk
    \/ Advance
    \/ LoopExit
    \/ Export

NextCycle ==
    \/ StartRun
    \/ RunStep

\* asyncio.run drives the coroutine until it returns: while the run can
\* take a step it eventually takes one.
SpecCycle == InitCycle /\ [][NextCycle]_vars /\ WF_vars(RunStep)

\* ------------------------------------------------ StateManager, file level
\* save_state(s) up to `open(state_path, 'w')`: last_updated is set, the
\* file exists and is empty.
BeginSave(s) ==
    /\ writer' = [st |-> Some(Stamp(s)), saving |-> TRUE, pos |-> 0,
                  old |-> dir[s.job_id].rec]
    /\ dir' = [dir EXCEPT ![s.job_id] = Garbage(<<>>)]
    /\ UNCHANGED <<crawl, rotation, ident>>

\* create_job(j, base_url)
SaveCreateJob ==
    /\ ~writer.saving
    /\ \E j \in StoreIds :
        /\ BeginSave(NewJob(j))
        /\ answer' = [NoAnswer EXCEPT !.op = "create", !.id = j]

\* update_progress(state, url, items_count) on the job of the writer
SaveProgress ==
    /\ ~writer.saving
    /\ IsSome(writer.st)
    /\ ~Get(writer.st).completed
    /\ Get(writer.st).pages_scraped < StorePagesBound
    /\ \E cnt \in ItemCounts :
        BeginSave(UpdateProgress(Get(writer.st),
                                 Get(writer.st).pages_scraped + 1, cnt))
    /\ answer' = NoAnswer

\* mark_completed(state) on the job of the writer
SaveCompleted ==
    /\ ~writer.saving
    /\ IsSome(writer.st)
    /\ ~Get(writer.st).completed
    /\ BeginSave(MarkCompleted(Get(writer.st)))
    /\ answer' = NoAnswer

\* json.dump inside the `with`: the next tokens reach the file; after the
\* last of them the file is closed.
SaveFlush ==
    /\ writer.saving
    /\ LET s == Get(writer.st)
           text == JsonDump(s)
           n == IF writer.pos + ChunkTokens < Len(text)
                THEN writer.pos + ChunkTokens ELSE Len(text)
       IN  /\ dir' = [dir EXCEPT ![s.job_id] =
                        IF n = Len(text) THEN FileOf(s)
                        ELSE Garbage(SubSeq(text, 1, n))]
           /\ writer' = [writer EXCEPT !.pos = n, !.saving = (n < Len(text))]
    /\ answer' = IF answer.op = "create" THEN answer ELSE NoAnswer
    /\ UNCHANGED <<crawl, rotation, ident>>

\* load_state(j), called by another process (the resume or jobs command)
LoadJob ==
    /\ \E j \in StoreIds :
        LET loaded == LoadFile(dir[j])
        IN  answer' = [op |-> "load", id |-> j,
                       found |-> loaded.found, raised |-> loaded.raised]
    /\ UNCHANGED <<crawl, rotation, ident, dir, writer>>

\* list_jobs(): load_state of every *.json file; an exception of one of
\* them leaves list_jobs.
ListJobs ==
    /\ LET files == {j \in StoreIds : dir[j].exists}
           loaded == [j \in files |-> LoadFile(dir[j])]
           errors == {loaded[j].raised : j \in files} \ {"none"}
       IN  answer' = [op |-> "list", id |-> "",
                      found |-> IF errors = {}
                                THEN UNION {loaded[j].found : j \in files}
                                ELSE {},
                      raised |-> IF errors = {} THEN "none"
                                 ELSE CHOOSE e \in errors : TRUE]
    /\ UNCHANGED <<crawl, rotation, ident, dir, writer>>

\* The behaviours on the same site with and without checkpointing.
InitRevisit ==
    /\ max_pages \in 0..CyclePagesBound
    /\ max_retries = DefaultMaxRetries
    /\ resume_enabled \in BOOLEAN
    /\ renderer = "static"
    /\ pagination = NextButtonPagination
    /\ concurrency = DefaultConcurrency
    /\ site \in [Urls -> UNION {CycleSite[u] : u \in Urls}]
    /\ \A u \in Urls : site[u] \in CycleSite[u]
    /\ checkpoint = Nothing
    /\ pc = "idle"
    /\ Fresh
    /\ StoreIdle
    /\ IdentIdle
    /\ RotationIdle

SpecRevisit == InitRevisit /\ [][NextCycle]_vars /\ WF_vars(RunStep)

\* The checkpoint directory with one process saving a job and another
\* reading.
InitStore ==
    /\ max_pages = StorePagesBound
    /\ max_retries = DefaultMaxRetries
    /\ resume_enabled = TRUE
    /\ renderer = "static"
    /\ pagination = NextButtonPagination
    /\ concurrency = DefaultConcurrency
    /\ site = [u \in Urls |-> Nothing]
    /\ checkpoint = Nothing
    /\ pc = "idle"
    /\ Fresh
    /\ dir \in [StoreIds -> UNION {InitialFiles(j) : j \in StoreIds}]
    /\ \A j \in StoreIds : dir[j] \in InitialFiles(j)
    /\ writer = IdleWriter
    /\ answer = NoAnswer
    /\ IdentIdle
    /\ RotationIdle

NextStore ==
    \/ SaveCreateJob
    \/ SaveProgress
    \/ SaveCompleted
    \/ SaveFlush
    \/ LoadJob
    \/ ListJobs

SpecStore == InitStore /\ [][NextStore]_vars

\* The behaviours for every pagination configuration but the one of the
\* other specifications, with both renderers, on every site.
InitPaging ==
    /\ max_pages \in 1..MaxPagesBound
    /\ max_retries = DefaultMaxRetries
    /\ resume_enabled \in BOOLEAN
    /\ renderer \in {"static", "dynamic"}
    /\ pagination \in PaginationConfigs \ {NextButtonPagination}
    /\ concurrency = DefaultConcurrency
    /\ site = [u \in Urls |-> Nothing]
    /\ checkpoint = Nothing
    /\ pc = "idle"
    /\ Fresh
    /\ StoreIdle
    /\ IdentIdle
    /\ RotationIdle

SpecPaging == InitPaging /\ [][Next]_vars

\* The behaviours on a chain of ChainPages pages, the last without a next
\* link, with max_pages = ChainMaxPages, concurrency 1 and checkpointing.
ChainSite ==
    [u \in Urls |->
        IF u < ChainPages THEN {Some([next |-> u + 1, cnt |-> c]) : c \in ItemCounts}
        ELSE IF u = ChainPages THEN {Some([next |-> None, cnt |-> c]) : c \in ItemCounts}
        ELSE {Nothing}]

InitChain ==
    /\ max_pages = ChainMaxPages
    /\ max_retries = DefaultMaxRetries
    /\ resume_enabled = TRUE
    /\ renderer = "static"
    /\ pagination = NextButtonPagination
    /\ concurrency = ConcurrencyMin
    /\ site \in [Urls -> UNION {ChainSite[u] : u \in Urls}]
    /\ \A u \in Urls : site[u] \in ChainSite[u]
    /\ checkpoint = Nothing
    /\ pc = "idle"
    /\ Fresh
    /\ StoreIdle
    /\ IdentIdle
    /\ RotationIdle

SpecChain == InitChain /\ [][Next]_vars

\* Two Scraper objects over any two configurations; each generates its
\* job_id, any number of times.
GenerateId ==
    /\ \E k \in Scrapers : job_ids' = [job_ids EXCEPT ![k] = Some(GenerateJobId(cfgs[k]))]
    /\ UNCHANGED <<crawl, rotation, store, cfgs>>

\* The object is dropped and constructed again from the same configuration.
ForgetId ==
    /\ \E k \in Scrapers :
        /\ IsSome(job_ids[k])
        /\ job_ids' = [job_ids EXCEPT ![k] = Nothing]
    /\ UNCHANGED <<crawl, rotation, store, cfgs>>

InitIdent ==
    /\ max_pages = 0
    /\ max_retries = DefaultMaxRetries
    /\ resume_enabled = TRUE
    /\ renderer = "static"
    /\ pagination = NextButtonPagination
    /\ concurrency = DefaultConcurrency
    /\ site = [u \in Urls |-> Nothing]
    /\ checkpoint = Nothing
    /\ pc = "idle"
    /\ Fresh
    /\ StoreIdle
    /\ cfgs \in [Scrapers -> Configs]
    /\ job_ids = [k \in Scrapers |-> Nothing]
    /\ RotationIdle

NextIdent ==
    \/ GenerateId
    \/ ForgetId

SpecIdent == InitIdent /\ [][NextIdent]_vars

\* ------------------------------------------------------------ observations
\* ------------------------------------------------ SessionManager, proxies
\* SessionManager(proxies=p): `self.proxies = proxies or []`, index 0
NewSessionManager ==
    /\ \E p \in ProxyLists :
        proxies' = p
    /\ proxy_index' = 0
    /\ proxy_returned' = <<>>
    /\ UNCHANGED <<crawl, store, ident>>

\* get_proxy()
GetProxy ==
    /\ Len(proxy_returned) < MaxProxyCalls
    /\ IF proxies = <<>>
       THEN /\ proxy_returned' = Append(proxy_returned, Nothing)
            /\ UNCHANGED proxy_index
       ELSE /\ proxy_returned' = Append(proxy_returned, Some(proxies[proxy_index + 1]))
            /\ proxy_index' = NextProxyIndex(proxy_index, Len(proxies))
    /\ UNCHANGED <<crawl, store, ident, proxies>>

InitProxy ==
    /\ max_pages = 1
    /\ max_retries = DefaultMaxRetries
    /\ resume_enabled = TRUE
    /\ renderer = "static"
    /\ pagination = NextButtonPagination
    /\ concurrency = DefaultConcurrency
    /\ site = [u \in Urls |-> Nothing]
    /\ checkpoint = Nothing
    /\ pc = "idle"
    /\ Fresh
    /\ StoreIdle
    /\ IdentIdle
    /\ RotationIdle

NextProxy ==
    \/ NewSessionManager
    \/ GetProxy

SpecProxy == InitProxy /\ [][NextProxy]_vars

Range(q) == {q[i] : i \in 1..Len(q)}
Last(q) == q[Len(q)]

\* The run took the resume branch of lines 167-172.
Resumed ==
    /\ pc \notin {"idle", "crashed", "rejected"}
    /\ resume_job_id = "job"
    /\ resume_enabled
    /\ IsSome(startState)
    /\ ~Get(startState).completed

\* Pages the run carried over from the checkpoint it resumed.
Carried == IF Resumed THEN Get(startState).pages_scraped ELSE 0

\* The records one uninterrupted run of the job hands to the sink, computed
\* by the loop of run on the site; Nothing while the chain leads to a page
\* whose content no fetch has revealed yet.
RECURSIVE FullRun(_, _, _, _)
FullRun(url, n, seen, acc) ==
    IF url = None \/ n >= max_pages THEN Some(acc)
    ELSE IF resume_enabled /\ InSeq(url, seen) THEN FullRun(url, n + 1, seen, acc)
    ELSE IF ~IsSome(site[url]) THEN Nothing
    ELSE FullRun(Get(site[url]).next, n + 1, Append(seen, url),
                 acc \o Records(url, Get(site[url]).cnt))

FullRunRecords == FullRun(base_url, 0, <<>>, <<>>)

\* The records of the pages of urls, page after page.
RECURSIVE PageRecords(_)
PageRecords(urls) ==
    IF urls = <<>> THEN <<>>
    ELSE Records(Head(urls), Get(site[Head(urls)]).cnt) \o PageRecords(Tail(urls))

\* ------------------------------------------------------------------ claims

\* C1: a run resumed from the checkpoint that update_progress wrote for page
\* i (the process was killed before the loop advanced) makes its first fetch
\* on the next URL found on page i, when there is one, it is not yet scraped
\* and the page budget allows, and never fetches page i again.
C1_ResumeStartsAtNextPage ==
    (/\ Resumed
     /\ Get(startState).urls_scraped /= <<>>
     /\ Get(startState).pages_scraped < max_pages
     /\ Get(site[Last(Get(startState).urls_scraped)]).next /= None
     /\ ~InSeq(Get(site[Last(Get(startState).urls_scraped)]).next,
               Get(startState).urls_scraped))
    => /\ ~InSeq(Last(Get(startState).urls_scraped), fetchLog)
       /\ fetchLog /= <<>> =>
            fetchLog[1] = Get(site[Last(Get(startState).urls_scraped)]).next
       /\ pc \in {"export", "done"} => fetchLog /= <<>>

\* C2: a job interrupted between two pages (the checkpoint holds a page
\* whose next link is new and within the page budget) and then resumed to its
\* end hands the sink the same record set as one uninterrupted run of the
\* whole job.
C2_ResumeSameRecordSet ==
    (/\ pc = "done"
     /\ Resumed
     /\ Get(startState).urls_scraped /= <<>>
     /\ Get(startState).pages_scraped < max_pages
     /\ Get(site[Last(Get(startState).urls_scraped)]).next /= None
     /\ ~InSeq(Get(site[Last(Get(startState).urls_scraped)]).next,
               Get(startState).urls_scraped)
     /\ IsSome(FullRunRecords))
    => Range(exported) = Range(Get(FullRunRecords))

\* C3: in every persisted checkpoint record pages_scraped equals the length
\* of urls_scraped.
C3_PagesEqualsUrls ==
    IsSome(checkpoint) =>
        Get(checkpoint).pages_scraped = Len(Get(checkpoint).urls_scraped)

\* C3 witness: a record of two pages is on disk, written by a run that
\* found an earlier record of the job.
C3_Witness ==
    /\ IsSome(checkpoint)
    /\ IsSome(startState)
    /\ Get(checkpoint).pages_scraped = 2
    /\ Len(Get(checkpoint).urls_scraped) = 2

\* C4: no URL occurs twice in the persisted urls_scraped.
C4_NoDuplicateUrls ==
    IsSome(checkpoint) =>
        \A i, j \in 1..Len(Get(checkpoint).urls_scraped) :
            i /= j => Get(checkpoint).urls_scraped[i] /= Get(checkpoint).urls_scraped[j]

\* C4 witness: the pagination chain has led back to a URL of urls_scraped
\* and the loop has counted it without fetching it.
C4_Witness ==
    /\ pc = "loop"
    /\ IsSome(checkpoint)
    /\ Len(Get(checkpoint).urls_scraped) >= 2
    /\ InSeq(current_url, Get(checkpoint).urls_scraped)
    /\ pages_scraped > Len(Get(checkpoint).urls_scraped)

\* C5: a persisted state with completed = true has no current_url, and a
\* run asked to resume a completed job fetches no page.
C5_CompletedNoFetch ==
    /\ (IsSome(checkpoint) /\ Get(checkpoint).completed)
            => Get(checkpoint).current_url = None
    /\ (/\ pc \notin {"idle", "crashed", "rejected"}
        /\ resume_job_id = "job"
        /\ IsSome(startState)
        /\ Get(startState).completed)
            => fetchLog = <<>>

\* C6: the loop makes at most max_pages page transitions and at most
\* max_pages page fetches, the pages carried over on resume included.
C6_BudgetRespected ==
    /\ pages_scraped <= max_pages
    /\ Len(fetchLog) + Carried <= max_pages

\* C6 witness: the budget ended a run on a chain that has a further link.
C6_Witness ==
    /\ pc = "done"
    /\ max_pages >= 2
    /\ Len(fetchLog) = max_pages
    /\ current_url /= None

\* C7: when every attempt for a page fails with a retryable error, the
\* backend is invoked exactly max_retries times before the page is abandoned.
C7_ExactlyMaxRetriesAttempts ==
    (pc = "failed" /\ abandoned /= None /\ lastError = "transient")
    => attempts = max_retries

\* C8: when a page's fetch exhausts its retries the run fetches no further
\* page and the records of the earlier pages are handed to the export sink.
C8_ExhaustionStillExports ==
    (pc = "failed" /\ abandoned /= None /\ lastError = "transient"
     /\ all_data /= <<>>)
    => exports = 1 /\ exported = all_data

\* C9: a run whose loop has ended, by an empty next URL, by the page budget
\* or by an exhausted fetch, leaves the persisted state completed with
\* current_url cleared.
C9_EveryEndCompletes ==
    (/\ resume_enabled
     /\ \/ pc \in {"export", "done"}
        \/ pc = "failed" /\ abandoned /= None /\ lastError = "transient")
    => /\ IsSome(checkpoint)
       /\ Get(checkpoint).completed
       /\ Get(checkpoint).current_url = None

\* C10: a run invokes the export sink at most once and only with records;
\* a run that ends without records has exported nothing and written no file.
C10_ExportOnceNonEmpty ==
    /\ exports <= 1
    /\ exports = 1 => exported /= <<>>
    /\ (pc = "done" /\ all_data = <<>>) => exports = 0 /\ filesWritten = 0

\* C10 witness: a run fetched pages, found no record and returned.
C10_Witness ==
    /\ pc = "done"
    /\ fetchLog /= <<>>
    /\ all_data = <<>>
    /\ exports = 0

\* C11: a run asked to resume a job that has no checkpoint, or whose
\* checkpoint is completed, fetches no page and leaves the checkpoint
\* directory as it found it.
C11_RefusedResumeTouchesNothing ==
    (/\ pc \notin {"idle", "crashed", "rejected"}
     /\ resume_job_id /= "none"
     /\ \/ resume_job_id = "unknown"
        \/ ~IsSome(startState)
        \/ Get(startState).completed)
    => /\ fetchLog = <<>>
       /\ checkpoint = startState

\* C12: a run without resume identifier that finds an incomplete checkpoint
\* of its job continues from it: the persisted counters and history are
\* kept, and no page of that history is fetched again.
C12_RerunKeepsCheckpoint ==
    (/\ pc \notin {"idle", "crashed", "rejected"}
     /\ resume_job_id = "none"
     /\ resume_enabled
     /\ IsSome(startState)
     /\ ~Get(startState).completed)
    => /\ IsSome(checkpoint)
       /\ Get(checkpoint).pages_scraped >= Get(startState).pages_scraped
       /\ Get(checkpoint).items_collected >= Get(startState).items_collected
       /\ \A i \in 1..Len(Get(startState).urls_scraped) :
            /\ i <= Len(Get(checkpoint).urls_scraped)
            /\ Get(checkpoint).urls_scraped[i] = Get(startState).urls_scraped[i]
            /\ ~InSeq(Get(startState).urls_scraped[i], fetchLog)

\* C14: once a checkpoint write of the main loop has failed, the run has
\* ended by raising: it fetches nothing more, the persisted record is not
\* completed, and nothing was exported.
C14_SaveFailureAborts ==
    lastError = "save"
    => /\ pc = "failed"
       /\ in_flight = 0
       /\ exports = 0
       /\ filesWritten = 0
       /\ IsSome(checkpoint) => ~Get(checkpoint).completed

C14_Witness ==
    /\ lastError = "save"
    /\ Len(fetchLog) = 2
    /\ IsSome(checkpoint)
    /\ all_data /= <<>>

\* C15: a 4xx status or a malformed URL ends the fetch of the page at its
\* first attempt: the run has raised and one attempt was made.
C15_NonRetryableOneAttempt ==
    lastError \in NonRetryable => (pc = "failed" /\ attempts = 1)

\* C16: between a failed attempt and the next attempt for the same page the
\* slot of the semaphore stays taken.
C16_SlotHeldAcrossRetries ==
    (pc = "fetch" /\ attempts >= 1) => in_flight = 1

\* C17: a request is in flight only under a concurrency limit of
\* ConcurrencyMin..ConcurrencyMax.
C17_FetchOnlyUnderValidLimit ==
    in_flight > 0 => ValidConcurrency(concurrency)

\* C18: when run has returned or raised, the session is closed and the
\* browser is stopped.
C18_ClosedOnEveryExit ==
    pc \in {"done", "failed"} => (~session_open /\ ~browser_open)

C18_Witness ==
    /\ pc = "failed"
    /\ renderer = "static"
    /\ lastError = "transient"
    /\ attempts = MaxAttempts

\* C20: on the chain page 1 -> page 2 -> page 1, a run that is back at page
\* 1 after fetching both pages returns, finalized, without having fetched
\* anything more.
C20_CycleTerminates ==
    (pc = "loop" /\ current_url = base_url /\ fetchLog = <<base_url, 2>>)
    ~> (/\ pc = "done"
        /\ fetchLog = <<base_url, 2>>
        /\ Get(checkpoint).completed)

C20_Witness ==
    /\ pc = "done"
    /\ fetchLog = <<base_url, 2>>
    /\ Get(checkpoint).completed
    /\ pages_scraped = max_pages
    /\ max_pages > Len(fetchLog) + 1

\* C13: a load_state that runs while save_state is writing the record of a
\* job that had a record returns that record or the new one.
C13_LoadDuringSaveSeesWholeRecord ==
    (/\ answer.op = "load"
     /\ writer.saving
     /\ answer.id = Get(writer.st).job_id
     /\ IsSome(writer.old))
    => /\ answer.raised = "none"
       /\ answer.found \in {{Get(writer.old)}, {Get(writer.st)}}

C21_ChainRunCompletes ==
    (pc = "done" /\ ~Resumed)
    => /\ pages_scraped = ChainPages
       /\ fetchLog = [i \in 1..ChainPages |-> i]
       /\ IsSome(checkpoint)
       /\ Get(checkpoint).completed
       /\ Get(checkpoint).current_url = None
       /\ Get(checkpoint).pages_scraped = ChainPages
       /\ Get(checkpoint).urls_scraped = fetchLog
       /\ Get(checkpoint).items_collected = Len(PageRecords(fetchLog))
       /\ all_data = PageRecords(fetchLog)
       /\ exports = (IF all_data = <<>> THEN 0 ELSE 1)
       /\ exports = 1 => exported = PageRecords(fetchLog)

C21_Witness ==
    /\ pc = "done"
    /\ ~Resumed
    /\ exports = 1
    /\ Len(exported) = 2 * ChainPages
    /\ Get(checkpoint).items_collected = 2 * ChainPages

\* C22: two configurations with the same base_url and the same
\* item_container selector get the same job_id, hence the same checkpoint
\* file, whatever their other settings; generating the id again gives the
\* same id.
C22_JobIdFromUrlAndSelector ==
    /\ \A k1, k2 \in Scrapers :
        (/\ IsSome(job_ids[k1])
         /\ IsSome(job_ids[k2])
         /\ cfgs[k1].base_url = cfgs[k2].base_url
         /\ cfgs[k1].item_container = cfgs[k2].item_container)
        => /\ Get(job_ids[k1]) = Get(job_ids[k2])
           /\ StatePath(Get(job_ids[k1])) = StatePath(Get(job_ids[k2]))
    /\ \A k \in Scrapers :
        IsSome(job_ids[k]) =>
            /\ Get(job_ids[k]) = GenerateJobId(cfgs[k])
            /\ Len(Get(job_ids[k])) = JobIdLength

C22_Witness ==
    /\ IsSome(job_ids[1])
    /\ IsSome(job_ids[2])
    /\ cfgs[1].base_url = cfgs[2].base_url
    /\ cfgs[1].item_container = cfgs[2].item_container
    /\ cfgs[1].other /= cfgs[2].other
    /\ Len(cfgs[1].base_url) > 1

\* C23: the slots in use never exceed the concurrency limit, and a job has
\* at most one request in flight, the one for the page the cursor is on.
C23_InFlightWithinLimit ==
    /\ in_flight = 0 \/ in_flight <= concurrency
    /\ in_flight <= 1
    /\ in_flight = 1 => (pc = "inflight" /\ Last(fetchLog) = current_url)

C23_Witness ==
    /\ in_flight = 1
    /\ concurrency = ConcurrencyMin
    /\ Len(fetchLog) = 2
    /\ attempts = 1

\* C24: every invocation of the backend, retries included, comes after a
\* sleep of its own: the sleeps served for a page equal the attempts made,
\* plus one while a request is in flight.
C24_DelayBeforeEveryAttempt ==
    delays = attempts + (IF pc = "inflight" THEN 1 ELSE 0)

C24_Witness ==
    /\ pc = "inflight"
    /\ attempts = 2
    /\ delays = 3

\* C25: the state persisted for a processed page has the page appended to
\* urls_scraped and, as current_url, the next URL found on the page.
C25_CheckpointPointsAtNextUrl ==
    (pc = "advance" /\ HasStateManager)
    => /\ Last(Get(checkpoint).urls_scraped) = current_url
       /\ Get(checkpoint).current_url = next_url

\* C26: with the cursor on a URL of urls_scraped and budget left, the step
\* the loop takes fetches nothing and leaves the persisted state as it is.
C26_SkipLeavesStateAlone ==
    [][(/\ pc = "loop"
        /\ IsSome(state)
        /\ current_url /= None
        /\ InSeq(current_url, Get(state).urls_scraped)
        /\ pages_scraped < max_pages
        /\ pc' /= "crashed")
       => (/\ fetchLog' = fetchLog
           /\ checkpoint' = checkpoint
           /\ state' = state)]_vars

C26_Witness ==
    /\ pc = "loop"
    /\ IsSome(state)
    /\ fetchLog /= <<>>
    /\ pages_scraped > Get(state).pages_scraped
    /\ checkpoint = state

\* C27: when the sink is about to be invoked, and after it was, the
\* persisted state is completed with current_url cleared; the sink received
\* the records of every page the run fetched.
C27_CompletedBeforeExport ==
    /\ (resume_enabled /\ (pc = "export" \/ exports = 1))
       => /\ IsSome(checkpoint)
          /\ Get(checkpoint).completed
          /\ Get(checkpoint).current_url = None
    /\ exports = 1
       => /\ exported = all_data
          /\ exported = PageRecords(fetchLog)

C27_Witness ==
    /\ pc = "done"
    /\ resume_enabled
    /\ exports = 1
    /\ Len(fetchLog) = 2
    /\ Len(exported) = 4

\* C28: after the sink has failed the run has raised, the sink was called
\* once, and the checkpoint is the state persisted at loop exit: it lists
\* and counts every page the run processed.
C28_ExportFailureKeepsCheckpoint ==
    lastError = "export"
    => /\ pc = "failed"
       /\ exports = 1
       /\ IsSome(checkpoint)
       /\ checkpoint = state
       /\ ~Resumed =>
            /\ Get(checkpoint).urls_scraped = fetchLog
            /\ Get(checkpoint).pages_scraped = Len(fetchLog)
            /\ Get(checkpoint).items_collected = Len(all_data)

C28_Witness ==
    /\ lastError = "export"
    /\ Len(fetchLog) = 2
    /\ Get(checkpoint).items_collected = 4

\* C29: while a page is being fetched, every page fetched before it in the
\* run is in the persisted urls_scraped.
C29_SavedBeforeNextFetch ==
    (resume_enabled /\ pc \in {"fetch", "inflight"})
    => /\ IsSome(checkpoint)
       /\ \A i \in 1..(Len(fetchLog) - 1) :
            InSeq(fetchLog[i], Get(checkpoint).urls_scraped)

C29_Witness ==
    /\ resume_enabled
    /\ pc = "fetch"
    /\ attempts = 0
    /\ Len(fetchLog) = 3

\* C30: in a run that started its job, urls_scraped is the sequence of the
\* pages fetched so far, in the order of their fetches, without the page
\* still in progress; the records collected, and those exported, are the
\* records of these pages in that order.
C30_PaginationOrder ==
    (/\ resume_enabled
     /\ pc \notin {"idle", "crashed", "rejected"}
     /\ ~Resumed)
    => LET urls == Get(checkpoint).urls_scraped
       IN  /\ Len(urls) <= Len(fetchLog)
           /\ Len(fetchLog) <= Len(urls) + 1
           /\ urls = SubSeq(fetchLog, 1, Len(urls))
           /\ all_data = PageRecords(urls)
           /\ exports = 1 => exported = PageRecords(urls)

C30_Witness ==
    /\ resume_enabled
    /\ ~Resumed
    /\ pc = "done"
    /\ exports = 1
    /\ Len(Get(checkpoint).urls_scraped) = 3
    /\ Len(exported) = 4

\* C31: a page without records is counted and checkpointed like any other,
\* the cursor moves to the next URL the page supplies, and the loop is left
\* only with no URL to go to or with the page budget used up.
C31_EmptyPageDoesNotStop ==
    /\ (/\ pc = "advance"
        /\ Get(site[current_url]).cnt = 0)
       => /\ next_url = Get(site[current_url]).next
          /\ HasStateManager =>
               /\ Last(Get(checkpoint).urls_scraped) = current_url
               /\ Get(checkpoint).pages_scraped >= 1
    /\ (pc \in {"loop", "export"} /\ fetchLog /= <<>>)
       => current_url = Get(site[Last(fetchLog)]).next
    /\ pc = "export" => (current_url = None \/ pages_scraped >= max_pages)

C31_Witness ==
    /\ pc = "fetch"
    /\ resume_enabled
    /\ Len(fetchLog) = 2
    /\ Get(site[fetchLog[1]]).cnt = 0
    /\ Get(checkpoint).urls_scraped = <<fetchLog[1]>>

\* C32: once create_job(job_id, base_url) has returned, load_state of the
\* job finds one record, with the job's id, no page and no item counted, no
\* URL scraped, current_url = base_url and completed = false, whatever the
\* file held before.
C32_CreateJobPersistsCleanState ==
    (answer.op = "create" /\ ~writer.saving)
    => LET loaded == LoadFile(dir[answer.id])
       IN  /\ loaded.raised = "none"
           /\ \E s \in loaded.found :
                /\ loaded.found = {s}
                /\ s.job_id = answer.id
                /\ s.base_url = base_url
                /\ s.pages_scraped = 0
                /\ s.items_collected = 0
                /\ s.urls_scraped = <<>>
                /\ s.current_url = base_url
                /\ s.completed = FALSE

C32_Witness ==
    /\ answer.op = "create"
    /\ ~writer.saving
    /\ IsSome(writer.old)
    /\ Get(writer.old).completed
    /\ dir[answer.id].exists

\* C37: load_state of a job whose save_state has returned finds the state
\* that was saved, equal in every field; and a step that changes a file of
\* the directory changes the file of the job being saved and no other.
C37_LoadAfterSaveRoundTrip ==
    /\ []((/\ answer.op = "load"
           /\ ~writer.saving
           /\ IsSome(writer.st)
           /\ answer.id = Get(writer.st).job_id)
          => /\ answer.raised = "none"
             /\ answer.found = {Get(writer.st)})
    /\ [][\A j \in StoreIds :
            dir'[j] /= dir[j]
            => (IsSome(writer'.st) /\ Get(writer'.st).job_id = j)]_vars

C37_Witness ==
    /\ answer.op = "load"
    /\ ~writer.saving
    /\ IsSome(writer.st)
    /\ answer.id = Get(writer.st).job_id
    /\ answer.found = {Get(writer.st)}
    /\ Get(writer.st).completed
    /\ Get(writer.st).urls_scraped = <<1, 2>>
    /\ Get(writer.st).last_updated > Get(writer.st).started_at
    /\ \E j \in StoreIds : j /= answer.id /\ IsSome(dir[j].rec)

\* C33: with the strategy "none" or without a selector, no run fetches
\* anything but base_url, and fetches it once; a run that started at
\* base_url and left the loop has scraped this one page, whatever max_pages.
C33_NoPaginationOnePage ==
    (pagination.strategy = "none" \/ ~SelectorGiven(pagination))
    => /\ next_url = None
       /\ fetchLog \in {<<>>, <<base_url>>}
       /\ (pc \in {"export", "done"} /\ ~Resumed)
          => /\ fetchLog = <<base_url>>
             /\ pages_scraped = 1
             /\ current_url = None

C33_Witness ==
    /\ pagination.strategy = "none"
    /\ SelectorGiven(pagination)
    /\ max_pages = MaxPagesBound
    /\ pc = "done"
    /\ ~Resumed
    /\ site[base_url] = Some([next |-> 2, cnt |-> 2])
    /\ fetchLog = <<base_url>>
    /\ Len(exported) = 2

\* C34: from a loop state whose cursor is in urls_scraped, a step of the
\* run fetches nothing and leaves the cursor where it is: below max_pages it
\* adds one to the local page counter and stays in the loop, at max_pages
\* it completes the state and leaves the loop.
C34_SkipNeverAdvancesCursor ==
    [][(/\ pc = "loop"
        /\ IsSome(state)
        /\ current_url /= None
        /\ InSeq(current_url, Get(state).urls_scraped)
        /\ pc' /= "crashed")
       => (/\ fetchLog' = fetchLog
           /\ current_url' = current_url
           /\ IF pages_scraped < max_pages
              THEN /\ pc' = "loop"
                   /\ pages_scraped' = pages_scraped + 1
                   /\ checkpoint' = checkpoint
              ELSE /\ pc' = "export"
                   /\ pages_scraped' = pages_scraped
                   /\ Get(checkpoint').completed
                   /\ Get(checkpoint').urls_scraped = Get(checkpoint).urls_scraped)]_vars

C34_Witness ==
    /\ pc = "done"
    /\ Resumed
    /\ fetchLog = <<>>
    /\ current_url = base_url
    /\ max_pages = MaxPagesBound
    /\ pages_scraped = max_pages
    /\ Get(startState).pages_scraped = 1
    /\ Get(checkpoint).completed
    /\ Get(checkpoint).pages_scraped = 1

\* C35: in a run that started its job with checkpointing, the persisted
\* items_collected is the number of records accumulated so far, and after
\* the export the number of records the sink received.
C35_ItemsCollectedMatchesData ==
    (/\ resume_enabled
     /\ pc \notin {"idle", "crashed", "rejected"}
     /\ ~Resumed)
    => /\ Get(checkpoint).items_collected = Len(all_data)
       /\ exports = 1 => Get(checkpoint).items_collected = Len(exported)

C35_Witness ==
    /\ resume_enabled
    /\ ~Resumed
    /\ pc = "done"
    /\ exports = 1
    /\ Len(fetchLog) = 3
    /\ Len(exported) = 2
    /\ Get(checkpoint).items_collected = 2

\* C36: without checkpointing, a run on the chain page 1 -> page 2 -> page 1
\* returns after fetching max_pages pages, alternately page 1 and page 2,
\* with the records of every fetch accumulated, repeated ones included.
C36_NoCheckpointRefetchesCycle ==
    (~resume_enabled /\ pc = "loop" /\ fetchLog = <<>>)
    ~> (/\ pc = "done"
        /\ Len(fetchLog) = max_pages
        /\ \A i \in 1..Len(fetchLog) :
             fetchLog[i] = (IF i % 2 = 1 THEN base_url ELSE 2)
        /\ all_data = PageRecords(fetchLog)
        /\ checkpoint = Nothing)

C36_Witness ==
    /\ ~resume_enabled
    /\ pc = "done"
    /\ max_pages = CyclePagesBound
    /\ fetchLog = <<base_url, 2, base_url, 2, base_url>>
    /\ Len(all_data) = 10
    /\ exported = all_data

\* C38: with n > 0 proxies the index is in 0..n-1 and the k-th call of
\* get_proxy returned the proxy at position (k - 1) mod n of the list; with
\* no proxy every call returned None and the index is still 0.
C38_ProxyRoundRobin ==
    LET n == Len(proxies)
    IN  IF n > 0
        THEN /\ proxy_index \in 0..(n - 1)
             /\ proxy_index = Len(proxy_returned) % n
             /\ \A k \in 1..Len(proxy_returned) :
                  proxy_returned[k] = Some(proxies[((k - 1) % n) + 1])
        ELSE /\ proxy_index = 0
             /\ \A k \in 1..Len(proxy_returned) : proxy_returned[k] = Nothing

C38_Witness ==
    /\ proxies = <<"p1", "p2", "p1">>
    /\ proxy_returned = <<Some("p1"), Some("p2"), Some("p1"), Some("p1"), Some("p2")>>
    /\ proxy_index = 2

====
